---- MODULE Spec2Model ----
(***************************************************************************)
(* Model of the ether data plane: two Links joined by a wire, each with    *)
(* its Port and host channels (link.rs, port.rs), and the Hub rendezvous   *)
(* router (hub.rs).  Every actor handles one event of its FIFO mailbox at  *)
(* a time, to completion.                                                  *)
(***************************************************************************)
EXTENDS Integers, Sequences, FiniteSets, TLC

\* ------------------------------------------------------------------ bounds
\* payloads each host may offer to its Port
MaxWrites == 2
\* Poll events the pollster may send to the two Links in all
MaxPolls == 1
\* Stop events the environment may send to the two Links in all
MaxStops == 1
\* Start events a Link in Stop may be sent after its first Start, in all
MaxRestarts == 1
\* events the Cell and the Ports may send to the Hub in all
MaxHubEvents == 5

\* ------------------------------------------------------ program constants
\* const MAX_PORTS
MAX_PORTS == 3

\* ------------------------------------------------------------- vocabulary
Links == {"A", "B"}
Peer(l) == IF l = "A" THEN "B" ELSE "A"

\* values a 32-bit nonce is drawn from (Link::create argument, rand gen)
Nonces == {5, 7, 9}

\* Option<T>: None is the empty sequence, Some(x) a one-element sequence
None == <<>>
Some(x) == <<x>>

\* frame i-state tags
TICK == "TICK"
TECK == "TECK"
TACK == "TACK"
RTECK == "RTECK"

\* TreeId::new(nonce): a tag wrapping the nonce, compared by equality only
TreeId(n) == [tree |-> n]

\* Payload: opaque bytes tagged with a TreeId; the k-th payload a host offers
Payload(k) == [id |-> TreeId(100 + k), data |-> k]

\* Frame::new_reset(nonce)
new_reset(n) ==
    [kind |-> "Reset", nonce |-> n, tree_id |-> TreeId(0),
     i |-> "-", u |-> "-", payload |-> None]
\* Frame::new_entangled(tree_id, i, u)
new_entangled(t, i, u) ==
    [kind |-> "Entangled", nonce |-> 0, tree_id |-> t,
     i |-> i, u |-> u, payload |-> None]
\* Frame::set_payload(payload)
set_payload(f, p) == [f EXCEPT !.payload = Some(p)]

\* LinkEvent constructors; cust is the Port capability the event carries
LinkEv(type, cust, arg) == [type |-> type, cust |-> cust, arg |-> arg]
new_read(p) == LinkEv("Read", p, <<>>)
new_write(p, pl) == LinkEv("Write", p, <<pl>>)

\* PortEvent constructors
PortEv(type, arg) == [type |-> type, arg |-> arg]
new_init == PortEv("Init", <<>>)
new_link_status(state, balance) == PortEv("LinkStatus", <<state, balance>>)
new_link_to_port_write(pl) == PortEv("LinkToPortWrite", <<pl>>)
new_link_to_port_read == PortEv("LinkToPortRead", <<>>)

\* --------------------------------------------------------------- variables
VARIABLES
    link,       \* link[l]: the Link struct (nonce, state, balance, slots)
    linkq,      \* the events l's Port and the environment sent l, in order
    wire,       \* wire[l]: the frames l sent, in order, Peer(l) has yet to handle
    fatal,      \* fatal[l]: the panic that aborted l's process, or "none"
    port,       \* port[l]: the Port struct (myself)
    portq,      \* port[l]'s mailbox, a FIFO of PortEvents
    tx,         \* tx[l]: host channel, Port to host
    env,        \* env[l]: what the environment has sent l so far (counters)
    accepted,   \* history: payloads l accepted through Link.Write
    delivered,  \* history: payloads l sent to its reader (LinkToPortWrite)
    acks,       \* history: number of LinkToPortRead l sent to its writer
    dropped,    \* history: l dropped a frame while in Stop
    hub,        \* the Hub struct (myself, cell_in, cell_out, port_in, port_out)
    hubq,       \* the Hub's mailbox as Hub::create leaves it
    hubFatal,   \* the panic that aborted the Hub's process, or "none"
    hubEnv,     \* number of events the Cell and the Ports sent the Hub so far
    hubLast,    \* the event the Hub handled last, if any
    hubSent,    \* the messages the Hub sent while handling it, in order
    routed,     \* history: the routes computed for a direction's payload
    served,     \* history: the routes of it that got their Hub-to-x Write
    accepts,    \* history: number of writes the Hub accepted per direction
    hubAcks,    \* history: number of acknowledgements sent per direction
    pushed      \* history: payloads the Port of l pushed to tx

vars == <<link, linkq, wire, fatal, port, portq, tx, env,
          accepted, delivered, acks, dropped,
          hub, hubq, hubFatal, hubEnv, hubLast, hubSent,
          routed, served, accepts, hubAcks, pushed>>

linkVars == <<link, linkq, wire, fatal>>
portVars == <<port, portq, tx>>
histVars == <<accepted, delivered, acks, dropped>>
hubVars == <<hub, hubq, hubFatal, hubEnv, hubLast, hubSent,
             routed, served, accepts, hubAcks>>

\* ------------------------------------------------------------------- Link
\* Link::create(wire, nonce)
LinkCreate(n) ==
    [nonce |-> n, state |-> "Stop", balance |-> 0,
     reader |-> None, inbound |-> None, writer |-> None, outbound |-> None]

\* what a handler did: the struct after it, the frames it sent to the wire,
\* the events it sent to its Port, and the panic it ended in ("none" if none)
Out(s, w, p) == [self |-> s, wire |-> w, port |-> p, fatal |-> "none"]
Panic(s, w, p, why) == [self |-> s, wire |-> w, port |-> p, fatal |-> why]

\* OnReset with the comparison the wrong way round: the smaller nonce drives
OnResetSmallerDrives(s, f, r) ==
    LET s1 == [s EXCEPT !.state = "Init"]
    IN  IF s.nonce > f.nonce THEN Out(s1, <<>>, <<>>)
        ELSE IF s.nonce < f.nonce
             THEN Out(s1, <<new_entangled(TreeId(s.nonce), TICK, TICK)>>, <<>>)
             ELSE Out([s1 EXCEPT !.nonce = r], <<new_reset(r)>>, <<>>)

\* OnReset comparing with >= : a Link also drives on an equal nonce
OnResetTieDrives(s, f, r) ==
    LET s1 == [s EXCEPT !.state = "Init"]
    IN  IF s.nonce < f.nonce THEN Out(s1, <<>>, <<>>)
        ELSE Out(s1, <<new_entangled(TreeId(s.nonce), TICK, TICK)>>, <<>>)

\* OnReset answering every Reset of a different nonce with a TICK
OnResetBothAnswer(s, f, r) ==
    LET s1 == [s EXCEPT !.state = "Init"]
    IN  IF s.nonce # f.nonce
        THEN Out(s1, <<new_entangled(TreeId(s.nonce), TICK, TICK)>>, <<>>)
        ELSE Out([s1 EXCEPT !.nonce = r], <<new_reset(r)>>, <<>>)

\* Frame, is_reset: r is the value rand::thread_rng().gen() returns
OnReset(s, f, r) ==
    LET tree_id == TreeId(s.nonce)
        s1 == [s EXCEPT !.state = "Init"]
    IN  IF s.nonce < f.nonce THEN Out(s1, <<>>, <<>>)
        ELSE IF s.nonce > f.nonce
             THEN Out(s1, <<new_entangled(tree_id, TICK, TICK)>>, <<>>)
             ELSE Out([s1 EXCEPT !.nonce = r], <<new_reset(r)>>, <<>>)

\* OnTick releasing the staged payload without taking the reader
OnTickKeepReader(s, f) ==
    LET tree_id == TreeId(s.nonce)
        release == s.balance = 1 /\ s.reader # None /\ s.inbound # None
        s1 == IF release
              THEN [s EXCEPT !.inbound = None, !.balance = 0]
              ELSE s
        toPort == IF release
                  THEN <<new_link_to_port_write(s.inbound[1])>> ELSE <<>>
    IN  IF s1.balance # 0 THEN Panic(s1, <<>>, toPort, "assert balance == 0 (TICK)")
        ELSE IF s1.outbound = None
             THEN Out(s1, <<new_entangled(tree_id, TICK, f.i)>>, toPort)
             ELSE Out([s1 EXCEPT !.balance = -1],
                      <<set_payload(new_entangled(tree_id, TECK, f.i),
                                    s1.outbound[1])>>,
                      toPort)

\* Frame, is_entangled, i_state = TICK
OnTick(s, f) ==
    LET tree_id == TreeId(s.nonce)
        release == s.balance = 1 /\ s.reader # None /\ s.inbound # None
        s1 == IF release
              THEN [s EXCEPT !.reader = None, !.inbound = None, !.balance = 0]
              ELSE s
        toPort == IF release
                  THEN <<new_link_to_port_write(s.inbound[1])>> ELSE <<>>
    IN  IF s1.balance # 0 THEN Panic(s1, <<>>, toPort, "assert balance == 0 (TICK)")
        ELSE IF s1.outbound = None
             THEN Out(s1, <<new_entangled(tree_id, TICK, f.i)>>, toPort)
             ELSE Out([s1 EXCEPT !.balance = -1],
                      <<set_payload(new_entangled(tree_id, TECK, f.i),
                                    s1.outbound[1])>>,
                      toPort)

\* OnTeck replying TACK before anything is staged: the payload is staged and
\* the surplus recorded only when balance is already +1
OnTeckLateStage(s, f) ==
    IF s.reader # None
    THEN Out(IF s.balance = 1
             THEN [s EXCEPT !.inbound = Some(f.payload[1])] ELSE s,
             <<new_entangled(TreeId(s.nonce), TACK, f.i)>>, <<>>)
    ELSE Out(s, <<new_entangled(TreeId(s.nonce), RTECK, f.i)>>, <<>>)

\* OnTeck rejecting without a reply when no reader is ready
OnTeckSilentReject(s, f) ==
    IF s.reader # None
    THEN Out([s EXCEPT !.inbound = Some(f.payload[1]), !.balance = 1],
             <<new_entangled(TreeId(s.nonce), TACK, f.i)>>, <<>>)
    ELSE Out(s, <<>>, <<>>)

\* Frame, is_entangled, i_state = TECK
OnTeck(s, f) ==
    LET tree_id == TreeId(s.nonce)
    IN  IF s.reader # None
        THEN Out([s EXCEPT !.inbound = Some(f.payload[1]), !.balance = 1],
                 <<new_entangled(tree_id, TACK, f.i)>>, <<>>)
        ELSE IF s.balance # 0
             THEN Panic(s, <<new_entangled(tree_id, RTECK, f.i)>>, <<>>,
                        "assert balance == 0 (TECK)")
             ELSE Out(s, <<new_entangled(tree_id, RTECK, f.i)>>, <<>>)

\* OnTack with the outbound payload left staged after the acknowledgement
OnTackKeepOutbound(s, f) ==
    IF s.balance # -1 THEN Panic(s, <<>>, <<>>, "assert balance == -1 (TACK)")
    ELSE IF s.writer # None
         THEN Out([s EXCEPT !.writer = None, !.balance = 0],
                  <<new_entangled(TreeId(s.nonce), TICK, f.i)>>,
                  <<new_link_to_port_read>>)
         ELSE Out(s, <<>>, <<>>)

\* Frame, is_entangled, i_state = TACK
OnTack(s, f) ==
    LET tree_id == TreeId(s.nonce)
    IN  IF s.balance # -1 THEN Panic(s, <<>>, <<>>, "assert balance == -1 (TACK)")
        ELSE IF s.writer # None
             THEN Out([s EXCEPT !.writer = None, !.outbound = None, !.balance = 0],
                      <<new_entangled(tree_id, TICK, f.i)>>,
                      <<new_link_to_port_read>>)
             ELSE Out(s, <<>>, <<>>)

\* OnRteck with the deficit left in place (balance not cleared)
OnRteckKeepDeficit(s, f) ==
    Out(s, <<new_entangled(TreeId(s.nonce), TICK, f.i)>>, <<>>)

\* Frame, is_entangled, i_state = RTECK
OnRteck(s, f) ==
    LET tree_id == TreeId(s.nonce)
    IN  Out([s EXCEPT !.balance = 0], <<new_entangled(tree_id, TICK, f.i)>>, <<>>)

\* Frame, is_entangled
OnEntangled(s, f) ==
    LET s1 == [s EXCEPT !.state = "Live"]
    IN  CASE f.i = TICK -> OnTick(s1, f)
          [] f.i = TECK -> OnTeck(s1, f)
          [] f.i = TACK -> OnTack(s1, f)
          [] f.i = RTECK -> OnRteck(s1, f)
          [] OTHER -> Panic(s1, <<>>, <<>>, "bad protocol state")

\* OnFrame without the early exit of a stopped Link
OnFrameNoMask(s, f, r) ==
    IF f.kind = "Reset" THEN OnReset(s, f, r)
    ELSE IF f.kind = "Entangled" THEN OnEntangled(s, f)
    ELSE Panic(s, <<>>, <<>>, "bad frame format")

\* LinkEvent::Frame
OnFrame(s, f, r) ==
    IF s.state = "Stop" THEN Out(s, <<>>, <<>>)
    ELSE IF f.kind = "Reset" THEN OnReset(s, f, r)
    ELSE IF f.kind = "Entangled" THEN OnEntangled(s, f)
    ELSE Panic(s, <<>>, <<>>, "bad frame format")

\* LinkEvent::Start
OnStart(s) ==
    LET s1 == [s EXCEPT !.state = "Init"]
    IN  Out(s1, <<new_reset(s.nonce)>>, <<new_link_status(s1.state, s1.balance)>>)

\* OnPoll reporting after it cleared Live, as Start and Stop report
OnPollReportAfter(s) ==
    LET s1 == IF s.state = "Live" THEN [s EXCEPT !.state = "Run"] ELSE s
    IN  Out(s1, <<>>, <<new_link_status(s1.state, s1.balance)>>)

\* LinkEvent::Poll
OnPoll(s) ==
    Out(IF s.state = "Live" THEN [s EXCEPT !.state = "Run"] ELSE s,
        <<>>, <<new_link_status(s.state, s.balance)>>)

\* LinkEvent::Stop
OnStop(s) ==
    LET s1 == [s EXCEPT !.state = "Stop"]
    IN  Out(s1, <<>>, <<new_link_status(s1.state, s1.balance)>>)

\* LinkEvent::Read
OnRead(s, cust) ==
    IF s.reader = None THEN Out([s EXCEPT !.reader = Some(cust)], <<>>, <<>>)
    ELSE Panic(s, <<>>, <<>>, "Only one Link-to-Port reader allowed")

\* LinkEvent::Write
OnWrite(s, cust, payload) ==
    IF s.writer = None
    THEN Out([s EXCEPT !.outbound = Some(payload), !.writer = Some(cust)],
             <<>>, <<>>)
    ELSE Panic(s, <<>>, <<>>, "Only one Port-to-Link writer allowed")

\* ----------------------------------------------------------- Link actions
\* the payloads of the LinkToPortWrite events among the port events es
RECURSIVE WritesIn(_)
WritesIn(es) ==
    IF es = <<>> THEN <<>>
    ELSE (IF Head(es).type = "LinkToPortWrite" THEN <<Head(es).arg[1]>> ELSE <<>>)
         \o WritesIn(Tail(es))

\* the number of LinkToPortRead events among the port events es
RECURSIVE ReadsIn(_)
ReadsIn(es) ==
    IF es = <<>> THEN 0
    ELSE (IF Head(es).type = "LinkToPortRead" THEN 1 ELSE 0) + ReadsIn(Tail(es))

\* A Link's mailbox merges, in arrival order, the frames the wire hands it
\* (in the order the peer sent them), the events of its Port (in the order
\* the Port sent them) and the control events of the environment.  The
\* senders are independent, so any merge can happen: the Link's next event
\* is the head of wire[Peer(l)], the head of linkq[l], or a control event.
\* link l is running and its next event is this type of Port event
LinkNext(l, type) ==
    /\ fatal[l] = "none"
    /\ linkq[l] # <<>>
    /\ Head(linkq[l]).type = type

\* link l finishes a handler with outcome out
LinkDone(l, out) ==
    /\ link' = [link EXCEPT ![l] = out.self]
    /\ portq' = [portq EXCEPT ![l] = @ \o out.port]
    /\ fatal' = [fatal EXCEPT ![l] = out.fatal]
    /\ delivered' = [delivered EXCEPT ![l] = @ \o WritesIn(out.port)]
    /\ acks' = [acks EXCEPT ![l] = @ + ReadsIn(out.port)]

\* link l finishes a Port or control event with outcome out
LinkEventDone(l, out) ==
    /\ LinkDone(l, out)
    /\ wire' = [wire EXCEPT ![l] = @ \o out.wire]

LinkFrame(l) ==
    /\ fatal[l] = "none"
    /\ wire[Peer(l)] # <<>>
    /\ \E r \in Nonces :
           LET out == OnFrame(link[l], Head(wire[Peer(l)]), r)
           IN  /\ LinkDone(l, out)
               /\ wire' = [wire EXCEPT ![Peer(l)] = Tail(@),
                                       ![l] = @ \o out.wire]
    /\ dropped' = [dropped EXCEPT ![l] = @ \/ link[l].state = "Stop"]
    /\ UNCHANGED <<linkq, port, tx, env, accepted, hubVars, pushed>>

\* Start reaches l, for the first time
LinkStart(l) ==
    /\ fatal[l] = "none"
    /\ env[l].starts = 0
    /\ env' = [env EXCEPT ![l].starts = 1]
    /\ LinkEventDone(l, OnStart(link[l]))
    /\ UNCHANGED <<linkq, port, tx, accepted, dropped, hubVars, pushed>>

\* the pollster's Poll reaches l
LinkPoll(l) ==
    /\ fatal[l] = "none"
    /\ env["A"].polls + env["B"].polls < MaxPolls
    /\ env' = [env EXCEPT ![l].polls = @ + 1]
    /\ LinkEventDone(l, OnPoll(link[l]))
    /\ UNCHANGED <<linkq, port, tx, accepted, dropped, hubVars, pushed>>

\* Stop reaches l
LinkStop(l) ==
    /\ fatal[l] = "none"
    /\ env["A"].stops + env["B"].stops < MaxStops
    /\ env' = [env EXCEPT ![l].stops = @ + 1]
    /\ LinkEventDone(l, OnStop(link[l]))
    /\ UNCHANGED <<linkq, port, tx, accepted, dropped, hubVars, pushed>>

\* the Starts link l handled after its first
Restarts(l) == IF env[l].starts > 0 THEN env[l].starts - 1 ELSE 0

\* Start reaches l again, after a Stop put it in Stop
LinkRestart(l) ==
    /\ fatal[l] = "none"
    /\ link[l].state = "Stop"
    /\ env[l].starts >= 1
    /\ Restarts("A") + Restarts("B") < MaxRestarts
    /\ env' = [env EXCEPT ![l].starts = @ + 1]
    /\ LinkEventDone(l, OnStart(link[l]))
    /\ UNCHANGED <<linkq, port, tx, accepted, dropped, hubVars, pushed>>

LinkRead(l) ==
    /\ LinkNext(l, "Read")
    /\ LinkEventDone(l, OnRead(link[l], Head(linkq[l]).cust))
    /\ linkq' = [linkq EXCEPT ![l] = Tail(@)]
    /\ UNCHANGED <<port, tx, env, accepted, dropped, hubVars, pushed>>

LinkWrite(l) ==
    /\ LinkNext(l, "Write")
    /\ LET e == Head(linkq[l])
           out == OnWrite(link[l], e.cust, e.arg[1])
       IN  /\ LinkEventDone(l, out)
           /\ linkq' = [linkq EXCEPT ![l] = Tail(@)]
           /\ accepted' = [accepted EXCEPT
                  ![l] = IF out.fatal = "none" THEN Append(@, e.arg[1]) ELSE @]
    /\ UNCHANGED <<port, tx, env, dropped, hubVars, pushed>>

\* ------------------------------------------------------------------- Port
\* Port::create(link, tx, rx): myself unset, Init(self) already sent to self
PortCreate == [myself |-> None]

\* port l is running and the next event of its mailbox is of this type
PortNext(l, type) ==
    /\ fatal[l] = "none"
    /\ portq[l] # <<>>
    /\ Head(portq[l]).type = type

\* PortEvent::Init
PortInit(l) ==
    /\ PortNext(l, "Init")
    /\ portq' = [portq EXCEPT ![l] = Tail(@)]
    /\ IF port[l].myself = None
       THEN /\ port' = [port EXCEPT ![l].myself = Some(l)]
            /\ UNCHANGED fatal
       ELSE /\ fatal' = [fatal EXCEPT ![l] = "Port::myself already set"]
            /\ UNCHANGED port
    /\ UNCHANGED <<link, linkq, wire, tx, env, histVars, hubVars, pushed>>

\* PortEvent::LinkStatus
PortLinkStatus(l) ==
    /\ PortNext(l, "LinkStatus")
    /\ portq' = [portq EXCEPT ![l] = Tail(@)]
    /\ UNCHANGED <<linkVars, port, tx, env, histVars, hubVars, pushed>>

\* LinkToPortWrite crediting the Link (Link.Read) before the push succeeds
PortLinkToPortWriteEarlyRead(l) ==
    /\ PortNext(l, "LinkToPortWrite")
    /\ LET event == Head(portq[l])
       IN  IF port[l].myself = None
           THEN /\ portq' = [portq EXCEPT ![l] = Tail(@)]
                /\ UNCHANGED <<tx, linkq>>
           ELSE /\ linkq' = [linkq EXCEPT
                       ![l] = Append(@, new_read(port[l].myself[1]))]
                /\ IF tx[l] = <<>>
                   THEN /\ tx' = [tx EXCEPT ![l] = Append(@, event.arg[1])]
                        /\ portq' = [portq EXCEPT ![l] = Tail(@)]
                   ELSE /\ portq' = [portq EXCEPT ![l] = Append(Tail(@), event)]
                        /\ UNCHANGED tx
    /\ pushed' = [pushed EXCEPT
           ![l] = @ \o SubSeq(tx'[l], Len(tx[l]) + 1, Len(tx'[l]))]
    /\ UNCHANGED <<link, wire, fatal, port, env, histVars, hubVars>>

\* LinkToPortWrite pushing without looking at tx
PortLinkToPortWritePushAlways(l) ==
    /\ PortNext(l, "LinkToPortWrite")
    /\ LET event == Head(portq[l])
       IN  IF port[l].myself = None
           THEN /\ portq' = [portq EXCEPT ![l] = Tail(@)]
                /\ UNCHANGED <<tx, linkq>>
           ELSE /\ tx' = [tx EXCEPT ![l] = Append(@, event.arg[1])]
                /\ linkq' = [linkq EXCEPT
                       ![l] = Append(@, new_read(port[l].myself[1]))]
                /\ portq' = [portq EXCEPT ![l] = Tail(@)]
    /\ pushed' = [pushed EXCEPT
           ![l] = @ \o SubSeq(tx'[l], Len(tx[l]) + 1, Len(tx'[l]))]
    /\ UNCHANGED <<link, wire, fatal, port, env, histVars, hubVars>>

\* PortEvent::LinkToPortWrite
PortLinkToPortWrite(l) ==
    /\ PortNext(l, "LinkToPortWrite")
    /\ LET event == Head(portq[l])
       IN  IF port[l].myself = None
           THEN /\ portq' = [portq EXCEPT ![l] = Tail(@)]
                /\ UNCHANGED <<tx, linkq>>
           ELSE IF tx[l] = <<>>
           THEN /\ tx' = [tx EXCEPT ![l] = Append(@, event.arg[1])]
                /\ linkq' = [linkq EXCEPT
                       ![l] = Append(@, new_read(port[l].myself[1]))]
                /\ portq' = [portq EXCEPT ![l] = Tail(@)]
           ELSE /\ portq' = [portq EXCEPT ![l] = Append(Tail(@), event)]
                /\ UNCHANGED <<tx, linkq>>
    /\ pushed' = [pushed EXCEPT
           ![l] = @ \o SubSeq(tx'[l], Len(tx[l]) + 1, Len(tx'[l]))]
    /\ UNCHANGED <<link, wire, fatal, port, env, histVars, hubVars>>

\* what rx.try_recv() finds: the host's next payload, if the host has offered
\* it by now (it offers MaxWrites payloads in all), or nothing
TryRecv(l) ==
    {None} \cup (IF env[l].writes < MaxWrites
                 THEN {Some(Payload(env[l].writes + 1))} ELSE {})

\* PortEvent::LinkToPortRead
PortLinkToPortRead(l) ==
    /\ PortNext(l, "LinkToPortRead")
    /\ LET event == Head(portq[l])
       IN  IF port[l].myself = None
           THEN /\ portq' = [portq EXCEPT ![l] = Tail(@)]
                /\ UNCHANGED <<env, linkq>>
           ELSE \E got \in TryRecv(l) :
                  IF got # None
                  THEN /\ env' = [env EXCEPT ![l].writes = @ + 1]
                       /\ linkq' = [linkq EXCEPT
                              ![l] = Append(@, new_write(port[l].myself[1], got[1]))]
                       /\ portq' = [portq EXCEPT ![l] = Tail(@)]
                  ELSE /\ portq' = [portq EXCEPT ![l] = Append(Tail(@), event)]
                       /\ UNCHANGED <<env, linkq>>
    /\ UNCHANGED <<link, wire, fatal, port, tx, histVars, hubVars, pushed>>

\* ------------------------------------------------------------ environment
\* the host consumes the payload on tx
HostRecv(l) ==
    /\ tx[l] # <<>>
    /\ tx' = [tx EXCEPT ![l] = Tail(@)]
    /\ UNCHANGED <<linkVars, port, portq, env, histVars, hubVars, pushed>>

\* -------------------------------------------------------------------- Hub
\* capabilities of the Cell, of the Ports in Hub.ports, and of the Hub
CellCap == [actor |-> "Cell", n |-> 0]
PortCap(n) == [actor |-> "Port", n |-> n]
HubCap == [actor |-> "Hub", n |-> 0]

\* enum Route
RouteCell == [kind |-> "Cell", to |-> 0]
RoutePort(n) == [kind |-> "Port", to |-> n]

\* HubEvent and its constructors; Init carries the Hub, the others their
\* customer, the writes a payload too
HubEv(type, cust, arg) == [type |-> type, cust |-> cust, arg |-> arg]
new_hub_init == HubEv("Init", HubCap, <<>>)
new_port_status(p) == HubEv("PortStatus", p, <<>>)
new_port_to_hub_write(p, pl) == HubEv("PortToHubWrite", p, <<pl>>)
new_port_to_hub_read(p) == HubEv("PortToHubRead", p, <<>>)
new_cell_to_hub_write(c, pl) == HubEv("CellToHubWrite", c, <<pl>>)
new_cell_to_hub_read(c) == HubEv("CellToHubRead", c, <<>>)

\* what the Hub sends: cap.send(event), to a Cell or to a Port
HubSend(cap, type, arg) == [to |-> cap, type |-> type, arg |-> arg]
new_hub_to_cell_write(cap, pl) == HubSend(cap, "HubToCellWrite", <<pl>>)
new_hub_to_cell_read(cap) == HubSend(cap, "HubToCellRead", <<>>)
new_hub_to_port_write(cap, pl) == HubSend(cap, "HubToPortWrite", <<pl>>)
new_hub_to_port_read(cap) == HubSend(cap, "HubToPortRead", <<>>)

\* the Hub is created with MAX_PORTS ports; Hub.ports[n] is PortCap(n)
PortNums == 0 .. MAX_PORTS - 1

\* Hub::create with every port_out reader empty
HubCreateNoReaders ==
    [myself   |-> None,
     ports    |-> [n \in PortNums |-> PortCap(n)],
     cell_in  |-> [reader |-> None],
     cell_out |-> [writer |-> None, payload |-> None, send_to |-> <<>>],
     port_in  |-> [n \in PortNums |->
                      [writer |-> None, payload |-> None, send_to |-> <<>>]],
     port_out |-> [n \in PortNums |-> [reader |-> None]]]

\* Hub::create: empty slots, except that every port_out reader is the port
HubCreate ==
    [myself   |-> None,
     ports    |-> [n \in PortNums |-> PortCap(n)],
     cell_in  |-> [reader |-> None],
     cell_out |-> [writer |-> None, payload |-> None, send_to |-> <<>>],
     port_in  |-> [n \in PortNums |->
                      [writer |-> None, payload |-> None, send_to |-> <<>>]],
     port_out |-> [n \in PortNums |-> [reader |-> Some(PortCap(n))]]]

\* the outcome of a Hub handler: the struct after it, the messages it sent,
\* and the panic that ended it, if any
HubOut(h, sent) == [self |-> h, sent |-> sent, fatal |-> "none"]
HubPanic(h, why) == [self |-> h, sent |-> <<>>, fatal |-> why]

port_to_port_num(h, p) == CHOOSE n \in PortNums : h.ports[n] = p

\* routes.remove(i), on a 1-based sequence
Remove(routes, i) == SubSeq(routes, 1, i - 1) \o SubSeq(routes, i + 1, Len(routes))

\* find_routes routing a Port's token back to the Port it came from
find_routesToSource(h, from) ==
    IF from.kind = "Cell"
    THEN IF h.cell_out.send_to # <<>>
         THEN HubPanic(h, "assert routes.is_empty()")
         ELSE HubOut([h EXCEPT !.cell_out.send_to = Append(@, RoutePort(0))], <<>>)
    ELSE IF h.port_in[from.to].send_to # <<>>
         THEN HubPanic(h, "assert routes.is_empty()")
         ELSE HubOut([h EXCEPT !.port_in[from.to].send_to = Append(@, from)],
                     <<>>)

\* find_routes: all Cell tokens route to Port(0), all Port(_) tokens to Cell
find_routes(h, from) ==
    IF from.kind = "Cell"
    THEN IF h.cell_out.send_to # <<>>
         THEN HubPanic(h, "assert routes.is_empty()")
         ELSE HubOut([h EXCEPT !.cell_out.send_to = Append(@, RoutePort(0))], <<>>)
    ELSE IF h.port_in[from.to].send_to # <<>>
         THEN HubPanic(h, "assert routes.is_empty()")
         ELSE HubOut([h EXCEPT !.port_in[from.to].send_to = Append(@, RouteCell)],
                     <<>>)

\* send_to_routes leaving the reader in its slot after sending to it
RECURSIVE send_to_routesKeepReader(_, _, _, _, _, _)
send_to_routesKeepReader(payload, routes, i, cell_in, port_out, sent) ==
    IF i > Len(routes)
    THEN [routes |-> routes, cell_in |-> cell_in, port_out |-> port_out,
          sent |-> sent]
    ELSE IF routes[i].kind = "Cell"
    THEN IF cell_in.reader # None
         THEN send_to_routesKeepReader(payload, Remove(routes, i), i,
                  cell_in, port_out,
                  Append(sent, new_hub_to_cell_write(cell_in.reader[1], payload)))
         ELSE send_to_routesKeepReader(payload, routes, i + 1, cell_in,
                                       port_out, sent)
    ELSE LET to == routes[i].to
         IN  IF port_out[to].reader # None
             THEN send_to_routesKeepReader(payload, Remove(routes, i), i,
                      cell_in, port_out,
                      Append(sent, new_hub_to_port_write(port_out[to].reader[1],
                                                         payload)))
             ELSE send_to_routesKeepReader(payload, routes, i + 1, cell_in,
                                           port_out, sent)

\* send_to_routes from route index i on (1-based): a route whose reader is
\* present is sent the payload, the reader is taken and the route removed
RECURSIVE send_to_routes(_, _, _, _, _, _)
send_to_routes(payload, routes, i, cell_in, port_out, sent) ==
    IF i > Len(routes)
    THEN [routes |-> routes, cell_in |-> cell_in, port_out |-> port_out,
          sent |-> sent]
    ELSE IF routes[i].kind = "Cell"
    THEN IF cell_in.reader # None
         THEN send_to_routes(payload, Remove(routes, i), i,
                  [cell_in EXCEPT !.reader = None], port_out,
                  Append(sent, new_hub_to_cell_write(cell_in.reader[1], payload)))
         ELSE send_to_routes(payload, routes, i + 1, cell_in, port_out, sent)
    ELSE LET to == routes[i].to
         IN  IF port_out[to].reader # None
             THEN send_to_routes(payload, Remove(routes, i), i, cell_in,
                      [port_out EXCEPT ![to].reader = None],
                      Append(sent, new_hub_to_port_write(port_out[to].reader[1],
                                                         payload)))
             ELSE send_to_routes(payload, routes, i + 1, cell_in, port_out, sent)

\* try_from_cell acknowledging after one pass over the routes, sent or not
try_from_cellAckEarly(h, sent) ==
    IF h.cell_out.writer # None /\ h.cell_out.payload # None
    THEN LET r == send_to_routes(h.cell_out.payload[1], h.cell_out.send_to,
                                 1, h.cell_in, h.port_out, sent)
         IN  HubOut([h EXCEPT !.cell_out.send_to = r.routes,
                              !.cell_in = r.cell_in,
                              !.port_out = r.port_out,
                              !.cell_out.writer = None,
                              !.cell_out.payload = None],
                    Append(r.sent, new_hub_to_cell_read(h.cell_out.writer[1])))
    ELSE HubOut(h, sent)

\* try_everyone, the Cell direction: send to the routes left, or, when none
\* is left, ack the writer and clear the slot
try_from_cell(h, sent) ==
    IF h.cell_out.writer # None /\ h.cell_out.payload # None
    THEN IF h.cell_out.send_to # <<>>
         THEN LET r == send_to_routes(h.cell_out.payload[1], h.cell_out.send_to,
                                      1, h.cell_in, h.port_out, sent)
              IN  HubOut([h EXCEPT !.cell_out.send_to = r.routes,
                                   !.cell_in = r.cell_in,
                                   !.port_out = r.port_out], r.sent)
         ELSE HubOut([h EXCEPT !.cell_out.writer = None,
                               !.cell_out.payload = None],
                     Append(sent, new_hub_to_cell_read(h.cell_out.writer[1])))
    ELSE HubOut(h, sent)

\* try_everyone, the direction of port number from
try_from_port(h, from, sent) ==
    LET port_in == h.port_in[from]
    IN  IF port_in.writer # None /\ port_in.payload # None
        THEN IF port_in.send_to # <<>>
             THEN LET r == send_to_routes(port_in.payload[1], port_in.send_to,
                                          1, h.cell_in, h.port_out, sent)
                  IN  HubOut([h EXCEPT !.port_in[from].send_to = r.routes,
                                       !.cell_in = r.cell_in,
                                       !.port_out = r.port_out], r.sent)
             ELSE HubOut([h EXCEPT !.port_in[from].writer = None,
                                   !.port_in[from].payload = None],
                         Append(sent, new_hub_to_port_read(port_in.writer[1])))
        ELSE HubOut(h, sent)

\* try_everyone, the loop over the ports from port number from on
\* (the outcome of one port is computed once and handed to the next)
RECURSIVE try_from_ports(_, _, _)
try_from_ports(h, from, sent) ==
    IF from >= MAX_PORTS THEN HubOut(h, sent)
    ELSE CHOOSE r \in {try_from_ports(o.self, from + 1, o.sent) :
                           o \in {try_from_port(h, from, sent)}} : TRUE

try_everyone(h) ==
    IF h.myself = None THEN HubOut(h, <<>>)
    ELSE CHOOSE r \in {try_from_ports(c.self, 0, c.sent) :
                           c \in {try_from_cell(h, <<>>)}} : TRUE

\* HubEvent::Init
HubOnInit(h, myself) ==
    IF h.myself = None THEN HubOut([h EXCEPT !.myself = Some(myself)], <<>>)
    ELSE HubPanic(h, "Hub::myself already set")

\* HubEvent::PortStatus: printed only
HubOnPortStatus(h, cust) == HubOut(h, <<>>)

\* HubEvent::PortToHubWrite
HubOnPortToHubWrite(h, cust, payload) ==
    LET n == port_to_port_num(h, cust)
    IN  IF h.port_in[n].writer = None
        THEN LET f == find_routes([h EXCEPT !.port_in[n].writer = Some(cust),
                                            !.port_in[n].payload = Some(payload)],
                                  RoutePort(n))
             IN  IF f.fatal # "none" THEN HubPanic(h, f.fatal)
                 ELSE try_everyone(f.self)
        ELSE HubPanic(h, "Only one Port-to-Hub writer allowed")

\* HubEvent::PortToHubRead
HubOnPortToHubRead(h, cust) ==
    LET n == port_to_port_num(h, cust)
    IN  IF h.port_out[n].reader = None
        THEN try_everyone([h EXCEPT !.port_out[n].reader = Some(cust)])
        ELSE HubPanic(h, "Only one Port-to-Hub reader allowed")

\* HubEvent::CellToHubWrite
HubOnCellToHubWrite(h, cust, payload) ==
    IF h.cell_out.writer = None
    THEN LET f == find_routes([h EXCEPT !.cell_out.writer = Some(cust),
                                        !.cell_out.payload = Some(payload)],
                              RouteCell)
         IN  IF f.fatal # "none" THEN HubPanic(h, f.fatal)
             ELSE try_everyone(f.self)
    ELSE HubPanic(h, "Only one Cell-to-Hub writer allowed")

\* HubEvent::CellToHubRead
HubOnCellToHubRead(h, cust) ==
    IF h.cell_in.reader = None
    THEN try_everyone([h EXCEPT !.cell_in.reader = Some(cust)])
    ELSE HubPanic(h, "Only one Cell-to-Hub reader allowed")

\* Hub::on_event
HubOnEvent(h, e) ==
    IF e.type = "Init" THEN HubOnInit(h, e.cust)
    ELSE IF e.type = "PortStatus" THEN HubOnPortStatus(h, e.cust)
    ELSE IF e.type = "PortToHubWrite" THEN HubOnPortToHubWrite(h, e.cust, e.arg[1])
    ELSE IF e.type = "PortToHubRead" THEN HubOnPortToHubRead(h, e.cust)
    ELSE IF e.type = "CellToHubWrite" THEN HubOnCellToHubWrite(h, e.cust, e.arg[1])
    ELSE HubOnCellToHubRead(h, e.cust)

\* ------------------------------------------------------------ Hub actions
\* the directions a writer writes in: from the Cell, from each Port
Dirs == {RouteCell} \cup {RoutePort(n) : n \in PortNums}

\* the slot (writer, payload, send_to) of direction d
Slot(h, d) == IF d.kind = "Cell" THEN h.cell_out ELSE h.port_in[d.to]

\* the direction event e writes in, if it is a write
WriteDir(h, e) ==
    IF e.type = "CellToHubWrite" THEN {RouteCell}
    ELSE IF e.type = "PortToHubWrite"
         THEN {RoutePort(port_to_port_num(h, e.cust))}
         ELSE {}

\* the acknowledgements of direction d among the messages sent
AcksTo(sent, d) ==
    Cardinality({i \in 1 .. Len(sent) :
        IF d.kind = "Cell" THEN sent[i].type = "HubToCellRead"
        ELSE sent[i].type = "HubToPortRead" /\ sent[i].to = PortCap(d.to)})

\* the routes that were sent payload pl among the messages sent
RoutesSent(sent, pl) ==
    {r \in Dirs : \E i \in 1 .. Len(sent) :
        /\ sent[i].arg = <<pl>>
        /\ IF r.kind = "Cell" THEN sent[i].type = "HubToCellWrite"
           ELSE sent[i].type = "HubToPortWrite" /\ sent[i].to = PortCap(r.to)}

\* the set of the elements of a sequence
Range(s) == {s[i] : i \in 1 .. Len(s)}

\* the Hub handles event e
HubHandle(e) ==
    LET out == HubOnEvent(hub, e)
        accept == IF out.fatal = "none" THEN WriteDir(hub, e) ELSE {}
    IN  /\ hubFatal = "none"
        /\ hub' = out.self
        /\ hubFatal' = out.fatal
        /\ hubSent' = out.sent
        /\ hubLast' = Some(e)
        /\ accepts' = [d \in Dirs |-> accepts[d] + (IF d \in accept THEN 1 ELSE 0)]
        /\ hubAcks' = [d \in Dirs |-> hubAcks[d] + AcksTo(out.sent, d)]
        /\ routed' = [d \in Dirs |->
               IF d \in accept THEN Range(Slot(find_routes(hub, d).self, d).send_to)
               ELSE routed[d]]
        /\ served' = [d \in Dirs |->
               LET pl == IF d \in accept THEN Some(e.arg[1]) ELSE Slot(hub, d).payload
               IN  (IF d \in accept THEN {} ELSE served[d])
                   \cup (IF pl = None THEN {} ELSE RoutesSent(out.sent, pl[1]))]
        /\ UNCHANGED <<linkVars, portVars, env, histVars, pushed>>

\* the Init that Hub::create sent is the first event of the mailbox
HubInit ==
    /\ hubq # <<>>
    /\ HubHandle(Head(hubq))
    /\ hubq' = Tail(hubq)
    /\ UNCHANGED hubEnv

\* an event of the Cell or of a Port reaches the Hub, behind the Init
HubArrives(e) ==
    /\ hubq = <<>>
    /\ hubEnv < MaxHubEvents
    /\ hubEnv' = hubEnv + 1
    /\ HubHandle(e)
    /\ UNCHANGED hubq

HubPortStatus(n) == HubArrives(new_port_status(PortCap(n)))

HubPortToHubWrite(n) ==
    HubArrives(new_port_to_hub_write(PortCap(n), Payload(hubEnv + 1)))

HubPortToHubRead(n) == HubArrives(new_port_to_hub_read(PortCap(n)))

HubCellToHubWrite ==
    HubArrives(new_cell_to_hub_write(CellCap, Payload(hubEnv + 1)))

HubCellToHubRead == HubArrives(new_cell_to_hub_read(CellCap))

\* ---------------------------------------------------------- specifications
\* The system after construction and wiring: Link::create and Port::create
\* have run (Init(self) is in the Port's mailbox), and each Port has been
\* given its first credit (LinkToPortRead) and has declared itself ready to
\* its Link once (Link.Read).
Constructed(nonceA, nonceB) ==
    /\ link = [l \in Links |-> LinkCreate(IF l = "A" THEN nonceA ELSE nonceB)]
    /\ linkq = [l \in Links |-> <<new_read(l)>>]
    /\ wire = [l \in Links |-> <<>>]
    /\ fatal = [l \in Links |-> "none"]
    /\ port = [l \in Links |-> PortCreate]
    /\ portq = [l \in Links |-> <<new_init, new_link_to_port_read>>]
    /\ tx = [l \in Links |-> <<>>]
    /\ env = [l \in Links |->
                 [starts |-> 0, stops |-> 0, polls |-> 0, writes |-> 0]]
    /\ accepted = [l \in Links |-> <<>>]
    /\ delivered = [l \in Links |-> <<>>]
    /\ acks = [l \in Links |-> 0]
    /\ dropped = [l \in Links |-> FALSE]
    /\ hub = HubCreate
    /\ hubq = <<new_hub_init>>
    /\ hubFatal = "none"
    /\ hubEnv = 0
    /\ hubLast = None
    /\ hubSent = <<>>
    /\ routed = [d \in Dirs |-> {}]
    /\ served = [d \in Dirs |-> {}]
    /\ accepts = [d \in Dirs |-> 0]
    /\ hubAcks = [d \in Dirs |-> 0]
    /\ pushed = [l \in Links |-> <<>>]

\* Link A is created with nonce 5, Link B with nonce 9
Init == Constructed(5, 9)

\* two Links, each Started once and never Stopped, with their Ports and hosts
Next ==
    \E l \in Links :
        \/ HostRecv(l)
        \/ LinkFrame(l)
        \/ LinkStart(l)
        \/ LinkRead(l)
        \/ LinkWrite(l)
        \/ PortInit(l)
        \/ PortLinkStatus(l)
        \/ PortLinkToPortWrite(l)
        \/ PortLinkToPortRead(l)

Spec == Init /\ [][Next]_vars

\* The actor runtime handles every event of a mailbox eventually, the wire
\* delivers every frame, and Start reaches both Links; the host need not
\* ever drain tx.
Fairness ==
    \A l \in Links :
        /\ WF_vars(LinkStart(l))
        /\ WF_vars(LinkFrame(l))
        /\ WF_vars(LinkRead(l))
        /\ WF_vars(LinkWrite(l))
        /\ WF_vars(PortInit(l))
        /\ WF_vars(PortLinkStatus(l))
        /\ WF_vars(PortLinkToPortWrite(l))
        /\ WF_vars(PortLinkToPortRead(l))

FairSpec == Init /\ [][Next]_vars /\ Fairness

\* the same system constructed with equal nonces
InitEq == Constructed(7, 7)

FairSpecEq == InitEq /\ [][Next]_vars /\ Fairness

\* the same system with the control events Poll and Stop
NextCtl ==
    \/ Next
    \/ \E l \in Links :
        \/ LinkPoll(l)
        \/ LinkStop(l)

SpecCtl == Init /\ [][NextCtl]_vars

\* Stop reaches l while l and its peer are entangled
LinkStopEntangled(l) ==
    /\ \A k \in Links : link[k].state \in {"Live", "Run"}
    /\ LinkStop(l)

\* the same system with a Stop for a Link of an entangled pair, and Start
\* again for a Link in Stop
NextRestart ==
    \/ Next
    \/ \E l \in Links :
        \/ LinkStopEntangled(l)
        \/ LinkRestart(l)

SpecRestart == Init /\ [][NextRestart]_vars

\* the Hub with its Cell and its Ports: the events of HubEvent in any order
NextHub ==
    \/ HubInit
    \/ HubCellToHubWrite
    \/ HubCellToHubRead
    \/ \E n \in PortNums :
        \/ HubPortStatus(n)
        \/ HubPortToHubWrite(n)
        \/ HubPortToHubRead(n)

SpecHub == Init /\ [][NextHub]_vars

\* the two Links and their Ports together with the Hub, which no Port holds
\* a capability of: the Hub handles the Init that Hub::create sent it
NextSys ==
    \/ Next
    \/ HubInit

FairSpecSys == Init /\ [][NextSys]_vars /\ Fairness /\ WF_vars(HubInit)

\* The Hub with a Cell and Ports that keep to the rendezvous protocol for
\* ever: a writer writes again only after its acknowledgement, a receiver
\* installs its reader again only after the Hub took it.  The events are
\* handled as they arrive; the payloads are one per writer, and the history
\* counters are left alone, so that the exchange can go on without end.
HubTakes(e) ==
    LET out == HubOnEvent(hub, e)
    IN  /\ hubq = <<>>
        /\ hubFatal = "none"
        /\ hub' = out.self
        /\ hubFatal' = out.fatal
        /\ hubSent' = out.sent
        /\ hubLast' = Some(e)
        /\ UNCHANGED <<hubq, hubEnv, routed, served, accepts, hubAcks>>
        /\ UNCHANGED <<linkVars, portVars, env, histVars, pushed>>

CellWrites ==
    /\ hub.cell_out.writer = None
    /\ HubTakes(new_cell_to_hub_write(CellCap, Payload(1)))

CellReads ==
    /\ hub.cell_in.reader = None
    /\ HubTakes(new_cell_to_hub_read(CellCap))

PortWrites(n) ==
    /\ hub.port_in[n].writer = None
    /\ HubTakes(new_port_to_hub_write(PortCap(n), Payload(2 + n)))

PortReads(n) ==
    /\ hub.port_out[n].reader = None
    /\ HubTakes(new_port_to_hub_read(PortCap(n)))

NextHubLive ==
    \/ HubInit
    \/ CellWrites
    \/ CellReads
    \/ \E n \in PortNums :
        \/ PortWrites(n)
        \/ PortReads(n)

\* the Hub drains its mailbox, and every receiver whose reader slot is empty
\* installs its reader again; no writer is obliged to write
HubFairness ==
    /\ WF_vars(HubInit)
    /\ WF_vars(CellReads)
    /\ \A n \in PortNums : WF_vars(PortReads(n))

FairSpecHub == Init /\ [][NextHubLive]_vars /\ HubFairness

\* ---------------------------------------------------- reading a transition
\* this step is link l handling the frame at the head of wire[Peer(l)]
FrameStep(l) == wire[Peer(l)] # <<>> /\ wire'[Peer(l)] = Tail(wire[Peer(l)])
\* the frame link l handles in a FrameStep(l)
Got(l) == Head(wire[Peer(l)])
\* the frames link l sends to the wire in a step of l
Sent(l) == SubSeq(wire'[l], Len(wire[l]) + 1, Len(wire'[l]))
\* the events link l sends to its Port in a step of l
ToPort(l) == SubSeq(portq'[l], Len(portq[l]) + 1, Len(portq'[l]))
\* link l handles an Entangled frame with this i-state (not masked by Stop)
Handles(l, i) ==
    /\ FrameStep(l)
    /\ link[l].state # "Stop"
    /\ Got(l).kind = "Entangled"
    /\ Got(l).i = i

\* ------------------------------------------------------------------ claims
\* C1: for every Link and every event it handles, balance stays in
\* {-1, 0, +1} and changes only by the four-phase rule.  A TICK is handled
\* with balance 0 or +1; with +1 it delivers the staged payload to the
\* reader (balance 0), and the handler ends at -1 exactly when it replies
\* TECK, else at 0.  A TECK with a reader installed ends at +1; without one
\* balance is and stays 0.  TACK and RTECK are handled at -1 and end at 0.
\* Every other event (Start, Stop, Poll, Read, Write, a Reset frame, a frame
\* dropped in Stop) leaves balance unchanged.
C1_BalanceStep(l) ==
    LET b == link[l].balance
        b2 == link'[l].balance
    IN  /\ b2 \in {-1, 0, 1}
        /\ IF Handles(l, TICK)
           THEN /\ b \in {0, 1}
                /\ (b = 1) <=> (delivered'[l] # delivered[l])
                /\ Sent(l) # <<>>
                /\ b2 = IF Sent(l)[1].i = TECK THEN -1 ELSE 0
           ELSE IF Handles(l, TECK)
           THEN IF link[l].reader # None THEN b2 = 1 ELSE b = 0 /\ b2 = 0
           ELSE IF Handles(l, TACK) \/ Handles(l, RTECK)
           THEN b = -1 /\ b2 = 0
           ELSE b2 = b

IsPrefix(a, b) == Len(a) <= Len(b) /\ a = SubSeq(b, 1, Len(a))

\* C2: between two entangled Links, what Peer(l)'s reader has been handed
\* (LinkToPortWrite) is always an initial part of what l accepted through
\* Link.Write: every payload once, unmodified (bytes and TreeId), in the order
\* written.  A payload accepted and not yet delivered is never lost or
\* overwritten: at most two are pending, the older one staged in the peer's
\* inbound slot or still in l's outbound slot, the newer one in l's outbound.
C2_Direction(l) ==
    LET acc == accepted[l]
        del == delivered[Peer(l)]
        und == Len(acc) - Len(del)
        inb == link[Peer(l)].inbound
        outb == link[l].outbound
    IN  /\ IsPrefix(del, acc)
        /\ und \in 0..2
        /\ und = 0 => inb = None /\ outb = None
        /\ und = 1 => (inb = Some(acc[Len(acc)]) /\ outb \in {None, inb})
                      \/ (inb = None /\ outb = Some(acc[Len(acc)]))
        /\ und = 2 => inb = Some(acc[Len(acc) - 1]) /\ outb = Some(acc[Len(acc)])

C2_ExactlyOnceInOrder == \A l \in Links : C2_Direction(l)

\* both payloads one host offered have reached the peer's reader
C2_Witness ==
    \E l \in Links :
        /\ Len(accepted[l]) >= 2
        /\ delivered[Peer(l)] = accepted[l]
        /\ accepted[l][1] # accepted[l][2]

\* C3: the order of events in one AIT.  The sender answers a TICK with TECK
\* carrying its staged payload (balance -1); the receiver, with a reader,
\* stages it and answers TACK (balance +1) without telling its Port; on TACK
\* the sender sends exactly one LinkToPortRead to its writer, clears writer
\* and outbound, has balance 0 and answers TICK; only on a TICK handled with
\* balance +1 does the receiver send LinkToPortWrite(payload), clearing reader
\* and inbound, with balance 0 before its reply (-1 after it if that reply is
\* a TECK of its own).  So the k-th acknowledgement always precedes the k-th
\* delivery, and each happens once per accepted payload.
C3_Step(l) ==
    LET s == link[l]
        t == link'[l]
        tick(u) == new_entangled(TreeId(s.nonce), TICK, u)
    IN  /\ (Handles(l, TICK) /\ s.outbound # None) =>
               /\ Sent(l) = <<set_payload(new_entangled(TreeId(s.nonce), TECK, TICK),
                                          s.outbound[1])>>
               /\ t.balance = -1
               /\ t.outbound = s.outbound /\ t.writer = s.writer
        /\ (Handles(l, TECK) /\ s.reader # None) =>
               /\ t.inbound = Some(Got(l).payload[1])
               /\ Sent(l) = <<new_entangled(TreeId(s.nonce), TACK, TECK)>>
               /\ t.balance = 1
               /\ t.reader = s.reader
               /\ ToPort(l) = <<>>
        /\ Handles(l, TACK) =>
               /\ s.balance = -1
               /\ ToPort(l) = <<new_link_to_port_read>>
               /\ t.writer = None /\ t.outbound = None
               /\ t.balance = 0
               /\ Sent(l) = <<tick(TACK)>>
        /\ (Handles(l, TICK) /\ s.balance = 1) =>
               /\ ToPort(l) = <<new_link_to_port_write(s.inbound[1])>>
               /\ t.reader = None /\ t.inbound = None
               /\ t.balance = IF s.outbound = None THEN 0 ELSE -1
        /\ delivered'[l] # delivered[l] => Handles(l, TICK) /\ s.balance = 1
        /\ acks'[l] # acks[l] => Handles(l, TACK)

C3_Order ==
    \A l \in Links :
        /\ Len(delivered[Peer(l)]) <= acks[l]
        /\ acks[l] <= Len(accepted[l])
        /\ Len(accepted[l]) <= acks[l] + 1

C3_AitOrder == [][\A l \in Links : C3_Step(l) /\ C3_Order']_vars

\* an AIT is half way: the sender's writer is acknowledged, the receiver
\* still holds the payload staged for its reader
C3_Witness ==
    \E l \in Links :
        /\ acks[l] = 1
        /\ delivered[Peer(l)] = <<>>
        /\ link[Peer(l)].balance = 1
        /\ link[Peer(l)].inbound = Some(accepted[l][1])
        /\ link[l].writer = None

\* C4: a TECK arriving at a Link with no reader is answered RTECK, nothing is
\* staged and balance is and stays 0.  The Link receiving the RTECK ends with
\* balance 0 and answers TICK, keeps writer and outbound, and sends its Port
\* nothing; every TICK it then handles with the payload staged is answered
\* TECK with that same payload, the one its writer is still waiting on.
C4_Step(l) ==
    LET s == link[l]
        t == link'[l]
    IN  /\ (Handles(l, TECK) /\ s.reader = None) =>
               /\ Sent(l) = <<new_entangled(TreeId(s.nonce), RTECK, TECK)>>
               /\ s.balance = 0
               /\ t = [s EXCEPT !.state = "Live"]
               /\ ToPort(l) = <<>>
        /\ Handles(l, RTECK) =>
               /\ t.balance = 0
               /\ Sent(l) = <<new_entangled(TreeId(s.nonce), TICK, RTECK)>>
               /\ t.writer = s.writer /\ t.outbound = s.outbound
               /\ s.writer # None /\ s.outbound # None
               /\ ToPort(l) = <<>>
               /\ acks'[l] = acks[l]
        /\ (Handles(l, TICK) /\ s.outbound # None) =>
               /\ Len(Sent(l)) = 1
               /\ Sent(l)[1].i = TECK
               /\ Sent(l)[1].payload = s.outbound

C4_Staged ==
    \A l \in Links :
        link[l].writer # None =>
            /\ Len(accepted[l]) = acks[l] + 1
            /\ link[l].outbound = Some(accepted[l][acks[l] + 1])

C4_RejectAndRetry == [][\A l \in Links : C4_Step(l) /\ C4_Staged']_vars

\* a retry: l got RTECK for a payload, kept it, and its TECK for the same
\* payload is in flight again
C4_Witness ==
    \E l \in Links :
        /\ wire[l] # <<>>
        /\ Head(wire[l]).i = TECK
        /\ Head(wire[l]).payload = Some(accepted[l][acks[l] + 1])
        /\ link[l].balance = -1
        /\ link[Peer(l)].reader = None
        /\ Len(delivered[Peer(l)]) = 1
        /\ Len(accepted[l]) = 2

\* the number of frames of this kind in flight, both directions together
RECURSIVE CountKind(_, _)
CountKind(w, kind) ==
    IF w = <<>> THEN 0
    ELSE (IF Head(w).kind = kind THEN 1 ELSE 0) + CountKind(Tail(w), kind)
InFlight(kind) == CountKind(wire["A"], kind) + CountKind(wire["B"], kind)

\* link l has been entangled
Entangled(l) == link[l].state \in {"Live", "Run"}

\* C5 as claimed: at most one frame is in flight per direction in every
\* reachable state.
C5_OneFramePerDirection == \A l \in Links : Len(wire[l]) <= 1

\* C5 as amended: with each Link Started once, at most one Entangled frame is
\* in flight in every reachable state, both directions together (during the
\* handshake a Reset and the first TICK may be in flight in one direction);
\* once a Link is entangled exactly one Entangled frame is in flight.  Only
\* the larger-nonce Link answers a Reset with an Entangled TICK, and every
\* Entangled frame handled produces exactly one reply frame.
C5_Token ==
    /\ InFlight("Entangled") <= 1
    /\ \A l \in Links : CountKind(wire[l], "Reset") <= 1
    /\ (\E l \in Links : Entangled(l)) => InFlight("Entangled") = 1

C5_Step(l) ==
    /\ (FrameStep(l) /\ link[l].state # "Stop" /\ Got(l).kind = "Entangled") =>
           Len(Sent(l)) = 1 /\ Sent(l)[1].kind = "Entangled"
    /\ (FrameStep(l) /\ link[l].state # "Stop" /\ Got(l).kind = "Reset") =>
           IF link[l].nonce > Got(l).nonce
           THEN Sent(l) = <<new_entangled(TreeId(link[l].nonce), TICK, TICK)>>
           ELSE \A i \in 1..Len(Sent(l)) : Sent(l)[i].kind = "Reset"

C5_OneToken == [][\A l \in Links : C5_Step(l) /\ C5_Token']_vars

\* the handshake is under way: the larger-nonce Link has answered with the
\* first TICK while its own Reset is still in flight in the same direction
C5_Witness ==
    \E l \in Links :
        /\ Len(wire[l]) = 2
        /\ wire[l][1].kind = "Reset"
        /\ wire[l][2].kind = "Entangled"

\* C8: with each Link Started once and never Stopped, and each Port sending
\* Link.Read once initially and after each payload it pushed, and Link.Write
\* only on a LinkToPortRead credit, no Link or Port panics: no balance
\* assertion fails and no second reader or writer is installed.
C8_NoFatal == \A l \in Links : fatal[l] = "none"

\* payloads have crossed in both directions and a second one is on its way
C8_Witness ==
    /\ \A l \in Links : Len(delivered[l]) >= 1 /\ fatal[l] = "none"
    /\ \E l \in Links : link[l].balance = -1 /\ Len(accepted[l]) = 2

\* both Links are Live and the one Entangled frame circulates
Steady ==
    /\ \A l \in Links : link[l].state = "Live"
    /\ InFlight("Entangled") = 1
    /\ InFlight("Reset") = 0

\* the Link with the larger nonce
Larger == IF link["A"].nonce > link["B"].nonce THEN "A" ELSE "B"

\* C6 as claimed: two Links with distinct nonces (A=5, B=9), both Started,
\* become entangled for every interleaving of the two Starts and the
\* delivery of the two Resets, and stay so.
C6_AlwaysEntangles == <>[]Steady

\* C6 as amended: the two Links become entangled, and the TICK exchange
\* continues indefinitely, provided the larger-nonce Link is already Started
\* when the smaller-nonce Link's Reset reaches it (a Reset that reaches a Link
\* still in Stop is dropped and never sent again).  A Link handling a Reset
\* enters Init; with the smaller nonce it sends nothing, with the larger it
\* sends Entangled(TreeId(its nonce), TICK, TICK).
C6_Step(l) ==
    (FrameStep(l) /\ link[l].state # "Stop" /\ Got(l).kind = "Reset") =>
        /\ link'[l].state = "Init"
        /\ link[l].nonce < Got(l).nonce => Sent(l) = <<>>
        /\ link[l].nonce > Got(l).nonce =>
               Sent(l) = <<new_entangled(TreeId(link[l].nonce), TICK, TICK)>>

C6_Handshake ==
    /\ [][\A l \in Links : C6_Step(l)]_vars
    /\ ([](~dropped[Larger])) =>
           /\ <>[]Steady
           /\ \A l \in Links : []<><<LinkFrame(l)>>_vars

\* entangled although the smaller-nonce Link was Started late and dropped
\* the peer's Reset
C6_Witness ==
    /\ Steady
    /\ dropped["A"]
    /\ ~dropped["B"]

\* C7 as claimed: two Links started with equal nonces become entangled
\* provided the re-drawn nonces eventually differ.
C7_AlwaysResolves ==
    (<>[](link["A"].nonce # link["B"].nonce)) => <>[]Steady

\* C7 as amended: with equal nonces, a Link that handles a Reset carrying its
\* own nonce replaces its nonce by the value drawn and sends Reset(that value)
\* and no Entangled frame.  Provided neither Link drops the peer's Reset while
\* still in Stop and the re-drawn nonces eventually differ, both Links become
\* entangled; the first TICK is sent once, by one Link, while no Entangled
\* frame is in flight and no Link is entangled.
C7_Step(l) ==
    /\ (FrameStep(l) /\ link[l].state # "Stop" /\ Got(l).kind = "Reset"
          /\ Got(l).nonce = link[l].nonce) =>
           /\ link'[l].state = "Init"
           /\ Sent(l) = <<new_reset(link'[l].nonce)>>
           /\ link'[l].nonce \in Nonces
    /\ (FrameStep(l) /\ Got(l).kind = "Reset" /\ Sent(l) # <<>>
          /\ Sent(l)[1].kind = "Entangled") =>
           /\ InFlight("Entangled") = 0
           /\ \A k \in Links : ~Entangled(k)
           /\ link[l].nonce > Got(l).nonce

C7_Collision ==
    /\ [][\A l \in Links : C7_Step(l)]_vars
    /\ []((\A l \in Links : ~dropped[l]) => InFlight("Entangled") <= 1)
    /\ ([](\A l \in Links : ~dropped[l])
          /\ <>[](link["A"].nonce # link["B"].nonce)) => <>[]Steady

\* entangled after both Links re-drew their nonce
C7_Witness ==
    /\ Steady
    /\ \A l \in Links : ~dropped[l] /\ link[l].nonce # 7

\* this step is the Hub handling an event
HubStep == hubEnv' # hubEnv \/ hubq' # hubq

\* C9: in every Hub direction (from the Cell, from each Port) a writer is
\* acknowledged at most once per accepted write; the acknowledgement is sent
\* only after every route computed for the payload was sent its Hub-to-x
\* Write, when the route list is empty; the writer and payload slots are
\* cleared in the step that sends the acknowledgement, and in no other.
C9_Step(d) ==
    HubStep =>
        /\ AcksTo(hubSent', d) <= 1
        /\ hubAcks'[d] <= accepts'[d]
        /\ AcksTo(hubSent', d) = 1 =>
               /\ routed'[d] # {}
               /\ routed'[d] \subseteq served'[d]
               /\ Slot(hub', d).send_to = <<>>
               /\ Slot(hub', d).writer = None
               /\ Slot(hub', d).payload = None
        /\ (Slot(hub, d).writer # None /\ Slot(hub', d).writer = None) =>
               AcksTo(hubSent', d) = 1

C9_AckOnceWhenRouted == [][\A d \in Dirs : C9_Step(d)]_vars

\* the Cell's writer was acknowledged and now Port 0's writer is
C9_Witness ==
    /\ hubAcks[RouteCell] = 1
    /\ AcksTo(hubSent, RoutePort(0)) = 1
    /\ served[RoutePort(0)] = {RouteCell}

\* C10 as claimed: a CellToHubWrite handled while port_out[0].reader is
\* absent stages the payload with routes [Port(0)] and sends nothing for it;
\* the PortToHubRead of port 0 handled next sends HubToPortWrite to port 0,
\* removes the route, sends HubToCellRead to the Cell's writer and leaves
\* cell_out.writer and cell_out.payload empty, all in that one event.
C10_Staged ==
    /\ hubFatal = "none"
    /\ hub.cell_out.writer # None
    /\ hub.cell_out.payload # None
    /\ hub.cell_out.send_to = <<RoutePort(0)>>
    /\ hub.port_out[0].reader = None

C10_Step ==
    /\ (HubStep /\ hubLast'[1].type = "CellToHubWrite" /\ hubFatal' = "none"
          /\ hub.port_out[0].reader = None) =>
           /\ C10_Staged'
           /\ RoutesSent(hubSent', hub'.cell_out.payload[1]) = {}
    /\ (HubStep /\ C10_Staged
          /\ hubLast' = Some(new_port_to_hub_read(PortCap(0)))) =>
           /\ new_hub_to_port_write(PortCap(0), hub.cell_out.payload[1])
                  \in Range(hubSent')
           /\ hub'.cell_out.send_to = <<>>
           /\ new_hub_to_cell_read(hub.cell_out.writer[1]) \in Range(hubSent')
           /\ hub'.cell_out.writer = None
           /\ hub'.cell_out.payload = None

C10_AckInSameEvent == [][C10_Step]_vars

\* C11: after every Hub event, in each direction (from the Cell, from each
\* Port), an occupied writer slot comes with an occupied payload slot and a
\* non-empty route list.
C11_WriterHasRoutes ==
    \A d \in Dirs :
        Slot(hub, d).writer # None =>
            /\ Slot(hub, d).payload # None
            /\ Slot(hub, d).send_to # <<>>

\* the reader slot of the receiver route r leads to
Reader(h, r) == IF r.kind = "Cell" THEN h.cell_in.reader ELSE h.port_out[r.to].reader

\* the Hub-to-x Write messages sent to receiver r among the messages sent
WritesTo(sent, r) ==
    {i \in 1 .. Len(sent) :
        IF r.kind = "Cell" THEN sent[i].type = "HubToCellWrite"
        ELSE sent[i].type = "HubToPortWrite" /\ sent[i].to = PortCap(r.to)}

\* this step installs a reader in the slot of receiver r
Installs(r) ==
    /\ hubFatal' = "none"
    /\ hubLast' = Some(IF r.kind = "Cell" THEN new_cell_to_hub_read(CellCap)
                       ELSE new_port_to_hub_read(PortCap(r.to)))

\* the routes direction d holds when this step's try_everyone starts, and
\* the payload staged for them
RoutesBefore(d) ==
    IF accepts'[d] > accepts[d] THEN routed'[d] ELSE Range(Slot(hub, d).send_to)

\* the routes this step removes from the list of direction d
RoutesRemoved(d) == RoutesBefore(d) \ Range(Slot(hub', d).send_to)

\* C12: the Hub removes a route from a direction's list only in a step in
\* which the receiver's reader slot was occupied (before the event, or
\* installed by it); exactly one Hub-to-x Write is sent to that receiver in
\* the step, it carries the direction's staged payload, and the reader slot
\* is empty afterwards.  No step sends a receiver more than one Write, also
\* when several directions hold a route to it, and none without a reader.
C12_Step ==
    HubStep =>
        /\ \A d \in Dirs : \A r \in RoutesRemoved(d) :
               /\ Reader(hub, r) # None \/ Installs(r)
               /\ \E i \in WritesTo(hubSent', r) :
                      /\ hubSent'[i].arg = Slot(hub', d).payload
                      /\ hubSent'[i].to = (IF Installs(r) THEN hubLast'[1].cust
                                           ELSE Reader(hub, r)[1])
               /\ Reader(hub', r) = None
        /\ \A r \in Dirs :
               /\ Cardinality(WritesTo(hubSent', r)) <= 1
               /\ WritesTo(hubSent', r) # {} =>
                      /\ Reader(hub, r) # None \/ Installs(r)
                      /\ Reader(hub', r) = None
                      /\ \E d \in Dirs : r \in RoutesRemoved(d)

C12_OneWritePerReader == [][C12_Step]_vars

\* the Cell's reader arrived while two Ports held a route to the Cell: one
\* payload was sent, the other route is still pending
C12_Witness ==
    /\ hubLast = Some(new_cell_to_hub_read(CellCap))
    /\ Cardinality(WritesTo(hubSent, RouteCell)) = 1
    /\ hub.cell_in.reader = None
    /\ \E n \in PortNums : hub.port_in[n].send_to = <<RouteCell>>

\* no pending route of Hub h has its receiver's reader slot occupied
NoReceiverReady(h) ==
    \A d \in Dirs : \A r \in Range(Slot(h, d).send_to) : Reader(h, r) = None

\* C13: try_everyone is idempotent.  Called on a Hub no pending route of
\* which has its receiver slot occupied, it sends nothing and changes no slot
\* and no route list; called twice in succession, the second call sends
\* nothing and leaves the Hub as the first call left it.
C13_Idempotent ==
    LET once == try_everyone(hub)
        twice == try_everyone(once.self)
    IN  /\ NoReceiverReady(hub) => (once.self = hub /\ once.sent = <<>>)
        /\ twice.self = once.self
        /\ twice.sent = <<>>

\* the payload direction d holds while this step's try_everyone runs
PayloadBefore(d) ==
    IF accepts'[d] > accepts[d] THEN Some(hubLast'[1].arg[1]) ELSE Slot(hub, d).payload

\* the routes of direction d served before this step's try_everyone
ServedBefore(d) == IF accepts'[d] > accepts[d] THEN {} ELSE served[d]

\* what the placeholder routing table says: Cell tokens to Port(0), Port
\* tokens to the Cell
Policy(d) == IF d.kind = "Cell" THEN {RoutePort(0)} ELSE {RouteCell}

\* C14: a payload accepted from the Cell is sent to Port 0 and to nothing
\* else, a payload accepted from a Port is sent to the Cell and to no Port;
\* what is sent is the payload accepted, once per route and never to its
\* source.  find_routes always finds the route list empty, and no route list
\* ever holds more than one route.
C14_Step ==
    HubStep =>
        /\ hubFatal' # "assert routes.is_empty()"
        /\ \A d \in Dirs :
               /\ Len(Slot(hub', d).send_to) <= 1
               /\ accepts'[d] > accepts[d] =>
                      /\ Slot(hub, d).send_to = <<>>
                      /\ routed'[d] = Policy(d)
                      /\ Slot(hub', d).payload = Some(hubLast'[1].arg[1])
               /\ served'[d] \subseteq routed'[d]
               /\ d \notin served'[d]
               /\ PayloadBefore(d) # None =>
                      RoutesSent(hubSent', PayloadBefore(d)[1]) \cap ServedBefore(d) = {}
               /\ Range(Slot(hub', d).send_to) = routed'[d] \ served'[d]
                      \/ Slot(hub', d).writer = None
        /\ \A i \in 1 .. Len(hubSent') :
               hubSent'[i].type \in {"HubToCellWrite", "HubToPortWrite"} =>
                   \E d \in Dirs :
                       /\ hubSent'[i].arg = PayloadBefore(d)
                       /\ IF d.kind = "Cell"
                          THEN hubSent'[i].type = "HubToPortWrite"
                               /\ hubSent'[i].to = PortCap(0)
                          ELSE hubSent'[i].type = "HubToCellWrite"

C14_RoutingPolicy == [][C14_Step]_vars

\* the Cell's payload went to Port 0 and a payload of Port 1 to the Cell
C14_Witness ==
    /\ served[RouteCell] = {RoutePort(0)}
    /\ served[RoutePort(1)] = {RouteCell}
    /\ Cardinality(WritesTo(hubSent, RouteCell)) = 1

\* this step is the Port of l handling the head of its mailbox
PortStep(l) ==
    /\ portq[l] # <<>>
    /\ portq'[l] # portq[l]
    /\ IsPrefix(Tail(portq[l]), portq'[l])
    /\ ~IsPrefix(portq[l], portq'[l])

\* C15: tx never holds more than one unread payload.  The Port pushes the
\* payload of a LinkToPortWrite only when tx is empty, and then sends
\* Link.Read; otherwise it re-enqueues the same event to itself, pushes
\* nothing and sends no Link.Read.  Every payload the Link handed over is
\* either pushed, once and in order, or still waiting in the Port's mailbox,
\* however late the host drains tx.
C15_Inv(l) ==
    /\ Len(tx[l]) <= 1
    /\ tx[l] # <<>> => (pushed[l] # <<>> /\ tx[l][1] = pushed[l][Len(pushed[l])])
    /\ delivered[l] = pushed[l] \o WritesIn(portq[l])

C15_Step(l) ==
    (PortStep(l) /\ Head(portq[l]).type = "LinkToPortWrite") =>
        IF tx[l] = <<>>
        THEN /\ tx'[l] = <<Head(portq[l]).arg[1]>>
             /\ portq'[l] = Tail(portq[l])
             /\ linkq'[l] = Append(linkq[l], new_read(l))
        ELSE /\ tx'[l] = tx[l]
             /\ portq'[l] = Append(Tail(portq[l]), Head(portq[l]))
             /\ linkq'[l] = linkq[l]

C15_SingleSlot ==
    /\ [](\A l \in Links : C15_Inv(l))
    /\ [][\A l \in Links : C15_Step(l)]_vars

\* the first payload is still unread in tx while the second waits, retried,
\* in the Port's mailbox
C15_Witness ==
    \E l \in Links :
        /\ tx[l] # <<>>
        /\ WritesIn(portq[l]) # <<>>
        /\ Len(delivered[l]) = 2
        /\ Len(pushed[l]) = 1

\* the number of events of this type among the events es
EventsIn(es, type) == Cardinality({i \in 1 .. Len(es) : es[i].type = type})

\* where the one read credit of l is: a Link.Read on its way to the Link, the
\* Link's reader slot, or a LinkToPortWrite on its way to (or retried by) the
\* Port; likewise the one write credit: a LinkToPortRead at the Port, a
\* Link.Write on its way to the Link, or the Link's writer slot
ReadCredits(l) ==
    EventsIn(linkq[l], "Read") + Len(link[l].reader)
        + EventsIn(portq[l], "LinkToPortWrite")
WriteCredits(l) ==
    EventsIn(portq[l], "LinkToPortRead") + EventsIn(linkq[l], "Write")
        + Len(link[l].writer)

\* C16: at most one LinkToPortWrite is on its way to a Port, the retried
\* copy included: once the Link has sent it the reader slot is empty and no
\* Link.Read is pending until the Port has pushed the payload and sent the
\* next Link.Read.  The Port answers a LinkToPortRead with exactly one
\* Link.Write, or, rx being empty, re-enqueues the LinkToPortRead and sends
\* nothing.
C16_Inv(l) ==
    /\ EventsIn(portq[l], "LinkToPortWrite") <= 1
    /\ ReadCredits(l) = 1
    /\ WriteCredits(l) = 1

C16_Step(l) ==
    /\ ToPort(l) # <<>> /\ WritesIn(ToPort(l)) # <<>> =>
           /\ Len(WritesIn(ToPort(l))) = 1
           /\ link[l].reader # None
           /\ link'[l].reader = None
    /\ (PortStep(l) /\ Head(portq[l]).type = "LinkToPortRead") =>
           \/ /\ portq'[l] = Tail(portq[l])
              /\ linkq'[l] = Append(linkq[l],
                     new_write(l, Payload(env[l].writes + 1)))
              /\ env'[l].writes = env[l].writes + 1
           \/ /\ portq'[l] = Append(Tail(portq[l]), Head(portq[l]))
              /\ linkq'[l] = linkq[l]
              /\ env'[l] = env[l]

C16_OneInFlight ==
    /\ [](\A l \in Links : C16_Inv(l))
    /\ [][\A l \in Links : C16_Step(l)]_vars

\* the second LinkToPortWrite is on its way to the Port of l, whose peer has
\* used its write credit twice
C16_Witness ==
    \E l \in Links :
        /\ EventsIn(portq[l], "LinkToPortWrite") = 1
        /\ link[l].reader = None
        /\ EventsIn(linkq[l], "Read") = 0
        /\ acks[Peer(l)] = 2

\* this step is link l handling a Start, a Poll, a Stop
StartStep(l) == env'[l].starts > env[l].starts
PollStep(l) == env'[l].polls > env[l].polls
StopStep(l) == env'[l].stops > env[l].stops

\* C17: a Link in Stop that handles a Frame, of any kind, changes none of its
\* fields and sends nothing, neither to the wire nor to its Port.  A Link in
\* Stop puts a frame on the wire only when handling Start; handling Poll or
\* Stop it sends its Port one LinkStatus and nothing else.  Stop on a Link
\* already in Stop leaves the Link as it was, and Stop after Stop gives what
\* one Stop gives.
C17_Step(l) ==
    /\ (FrameStep(l) /\ link[l].state = "Stop") =>
           /\ link'[l] = link[l]
           /\ Sent(l) = <<>>
           /\ ToPort(l) = <<>>
           /\ fatal'[l] = fatal[l]
    /\ (link[l].state = "Stop" /\ Sent(l) # <<>>) => StartStep(l)
    /\ (link[l].state = "Stop" /\ (PollStep(l) \/ StopStep(l))) =>
           /\ link'[l] = link[l]
           /\ Sent(l) = <<>>
           /\ ToPort(l) = <<new_link_status("Stop", link[l].balance)>>
    /\ StopStep(l) =>
           /\ link'[l] = [link[l] EXCEPT !.state = "Stop"]
           /\ Sent(l) = <<>>
           /\ ToPort(l) = <<new_link_status("Stop", link[l].balance)>>

C17_StopMasks ==
    /\ [](\A l \in Links : OnStop(OnStop(link[l]).self) = OnStop(link[l]))
    /\ [][\A l \in Links : C17_Step(l)]_vars

\* a Link that was Stopped after it had delivered a payload, and has dropped
\* the Entangled frame that was circulating
C17_Witness ==
    \E l \in Links :
        /\ link[l].state = "Stop"
        /\ env[l].stops = 1
        /\ delivered[l] # <<>>
        /\ dropped[l]
        /\ InFlight("Entangled") = 0

\* C18: Poll sends the Port LinkStatus(state, balance) with the values the
\* Link held before the Poll, sends nothing to the wire, and then turns Live
\* into Run; it changes nothing else, in any state.  A Link becomes Live only
\* by handling an Entangled frame, so a Poll reports Live only if one was
\* handled since the Poll before, and a Poll that follows a Poll with no
\* frame in between reports Run, Init or Stop.
C18_Step(l) ==
    /\ PollStep(l) =>
           /\ ToPort(l) = <<new_link_status(link[l].state, link[l].balance)>>
           /\ Sent(l) = <<>>
           /\ link'[l] = [link[l] EXCEPT
                  !.state = IF @ = "Live" THEN "Run" ELSE @]
           /\ link'[l].state \in {"Run", "Init", "Stop"}
    /\ (link[l].state # "Live" /\ link'[l].state = "Live") =>
           /\ FrameStep(l)
           /\ Got(l).kind = "Entangled"

C18_Again(l) ==
    LET first == OnPoll(link[l])
        second == OnPoll(first.self)
    IN  /\ second.self = first.self
        /\ second.wire = <<>>
        /\ second.port = <<new_link_status(first.self.state, link[l].balance)>>
        /\ second.port[1].arg[1] \in {"Run", "Init", "Stop"}

EmptySlot == [writer |-> None, payload |-> None, send_to |-> <<>>]

\* this step is the Hub handling this type of event
HubHandles(type) == HubStep /\ hubLast'[1].type = type

\* C19 as claimed: Hub::create leaves every slot and every route list empty,
\* the port_out readers too; so the first CellToHubWrite, handled before any
\* PortToHubRead of port 0, is staged with routes [Port(0)] and nothing is
\* sent, and the first PortToHubRead of each port is accepted without the
\* double-reader panic.
C19_FirstRead(n) ==
    (HubHandles("PortToHubRead") /\ hubLast'[1].cust = PortCap(n)
       /\ \A k \in 1 .. Len(hubSent) : hubSent[k].to # PortCap(n)
       /\ served[RouteCell] = {}) =>
        hubFatal' = "none"

C19_EmptyAtCreate ==
    /\ (hubLast = None) =>
           /\ hub.cell_in.reader = None
           /\ hub.cell_out = EmptySlot
           /\ \A n \in PortNums : hub.port_in[n] = EmptySlot
           /\ \A n \in PortNums : hub.port_out[n].reader = None
    /\ [][/\ (HubHandles("CellToHubWrite") /\ accepts[RouteCell] = 0) =>
                 /\ hub'.cell_out.send_to = <<RoutePort(0)>>
                 /\ hubSent' = <<>>
          /\ \A n \in PortNums : C19_FirstRead(n)]_vars

\* C19 as amended: Hub::create leaves cell_in.reader, cell_out and every
\* port_in slot and route list empty, but installs each port as the reader
\* of its port_out slot.  So the first CellToHubWrite is sent to port 0 in the
\* same event (its route list is empty afterwards), and a PortToHubRead of
\* port n is accepted only after a HubToPortWrite has taken port n's reader:
\* before that, and always for a port other than port 0, it ends in the
\* panic "Only one Port-to-Hub reader allowed".
C19_Step ==
    /\ (HubHandles("CellToHubWrite") /\ accepts[RouteCell] = 0) =>
           /\ hubFatal' = "none"
           /\ hub'.cell_out.send_to = <<>>
           /\ hub'.port_out[0].reader = None
           /\ new_hub_to_port_write(PortCap(0), hubLast'[1].arg[1])
                  \in Range(hubSent')
    /\ \A n \in PortNums :
           (HubHandles("PortToHubRead") /\ hubLast'[1].cust = PortCap(n)) =>
               /\ hubFatal' = "none" <=> hub.port_out[n].reader = None
               /\ hubFatal' # "none" =>
                      hubFatal' = "Only one Port-to-Hub reader allowed"
               /\ hub.port_out[n].reader = None =>
                      (n = 0 /\ accepts[RouteCell] >= 1)

C19_CreateSlots ==
    /\ [](hubLast = None =>
              /\ hub.myself = None
              /\ hub.cell_in.reader = None
              /\ hub.cell_out = EmptySlot
              /\ \A n \in PortNums : hub.port_in[n] = EmptySlot
              /\ \A n \in PortNums : hub.port_out[n].reader = Some(PortCap(n)))
    /\ [][C19_Step]_vars

\* the first CellToHubWrite went to port 0 at once, and the first
\* PortToHubRead of port 1 ended the Hub
C19_Witness ==
    /\ hubEnv = 2
    /\ served[RouteCell] = {RoutePort(0)}
    /\ hubLast = Some(new_port_to_hub_read(PortCap(1)))
    /\ hubFatal = "Only one Port-to-Hub reader allowed"

\* C20: every LinkStatus a Link reports to its Port (on Start, Poll or Stop)
\* is forwarded by the Port: the Hub eventually receives a PortStatus of
\* that port with the state and balance reported.
C20_StatusReachesHub ==
    \A l \in Links :
        (EventsIn(portq[l], "LinkStatus") > 0) ~>
            (\/ EventsIn(hubq, "PortStatus") > 0
             \/ (hubLast # None /\ hubLast[1].type = "PortStatus"))

\* C21: in every reachable Link state the slots agree with balance: at
\* balance +1 reader and inbound are occupied, and inbound is occupied only
\* at balance +1; at balance -1 writer and outbound are occupied; writer is
\* occupied exactly when outbound is.  So a TACK always finds a writer, and
\* a TICK handled at balance +1 finds a reader and a staged payload and
\* releases it.
C21_Inv(l) ==
    LET s == link[l]
    IN  /\ s.balance \in {-1, 0, 1}
        /\ s.balance = 1 => (s.reader # None /\ s.inbound # None)
        /\ s.inbound # None => s.balance = 1
        /\ s.balance = -1 => (s.writer # None /\ s.outbound # None)
        /\ s.writer # None <=> s.outbound # None

C21_Step(l) ==
    /\ Handles(l, TACK) => link[l].writer # None
    /\ (Handles(l, TICK) /\ link[l].balance = 1) =>
           /\ link[l].reader # None
           /\ link[l].inbound # None
           /\ ToPort(l) = <<new_link_to_port_write(link[l].inbound[1])>>

C21_SlotsAgree ==
    /\ [](\A l \in Links : C21_Inv(l))
    /\ [][\A l \in Links : C21_Step(l)]_vars

\* C22: every writer the Hub accepted is eventually acknowledged, in every
\* direction, when every receiver installs its reader again after the Hub
\* took it and the Hub drains its mailbox: no writer stays staged for ever,
\* a Port's writer that competes with lower-numbered Ports for the Cell's
\* one reader slot included.
C22_EveryWriterAcked ==
    \A d \in Dirs :
        (Slot(hub, d).writer # None) ~> (Slot(hub, d).writer = None)

\* Start handled by a Link that was Started before
RestartStep(l) == StartStep(l) /\ env[l].starts >= 1

\* a Link of the pair was Started again
Restarted == \E l \in Links : Restarts(l) > 0

C23_AtRest(l) == link[l].state \in {"Stop", "Init"} => link[l].balance = 0

C23_SendsReset(l) ==
    RestartStep(l) =>
        /\ Sent(l) = <<new_reset(link[l].nonce)>>
        /\ link'[l].state = "Init"

\* C23: a Link Stopped while the pair is entangled and Started again sends
\* Reset(nonce) and enters Init; after that no Link fails an assertion,
\* whichever Link it was and whatever the balances were at the Stop, and
\* the pair entangles again: it does not come to rest, no frame on the wire,
\* with a Link that is not entangled.  A Link in Stop or Init has balance 0.
C23_RestartsFromReset ==
    /\ [](\A l \in Links : C23_AtRest(l))
    /\ [](Restarted => \A l \in Links : fatal[l] = "none")
    /\ []((Restarted /\ \A l \in Links : wire[l] = <<>>) =>
              \A l \in Links : Entangled(l))
    /\ [][\A l \in Links : C23_SendsReset(l)]_vars

====
